---- MODULE Spec2Model ----
(***************************************************************************)
(* State-machine model of the regulation-observer dashboard                *)
(* (frontend/gov-reg-analyzer-site): App.tsx (the App component with its   *)
(* nested TableSection), components/FilterBar.tsx and                      *)
(* components/ChartSection.tsx.                                            *)
(*                                                                         *)
(* App.tsx holds two revisions of the component one after the other; the   *)
(* model follows the later one (lines 209-431), which is the one the       *)
(* bundle exports last.                                                    *)
(*                                                                         *)
(* JavaScript strings that are searched or compared (agency names, search  *)
(* queries) are sequences of one-character strings; metric names and       *)
(* column names, which are only compared for equality, are TLA+ strings.   *)
(* An optional argument is None (undefined) or Some(x).                    *)
(***************************************************************************)
EXTENDS Integers, Sequences, FiniteSets

VARIABLES
    agenciesData,       \* the imported agencies.json (never assigned)
    selectedAgencies,   \* App: useState([])
    currentPage,        \* App: useState(1)
    sortStates,         \* TableSection: useState({...}), one entry per metric
    wordCountSort,      \* ChartSection: useState("desc")
    sentenceLengthSort, \* ChartSection: useState("desc")
    restrictivenessSort,\* ChartSection: useState("desc")
    sentimentSort,      \* ChartSection: useState("desc")
    phase,              \* "mounting" until the mount effect ran, then "ready" or "crashed"
    threw,              \* the last handler ended with an uncaught TypeError
    lastCall            \* the last handler invoked, with its arguments

vars == <<agenciesData, selectedAgencies, currentPage, sortStates, wordCountSort,
          sentenceLengthSort, restrictivenessSort, sentimentSort, phase, threw,
          lastCall>>

chartVars == <<wordCountSort, sentenceLengthSort, restrictivenessSort, sentimentSort>>

-----------------------------------------------------------------------------
(* Bounds of the model.                                                    *)

\* Most agencies in a dataset of the filter and table specifications.
MaxAgencies == 4
\* Most agencies in a dataset of the ranking specification whose agencies
\* differ in their number of year entries.
MaxRankAgencies == 3
\* Most agencies in a dataset of the paging specification (two pages of 5).
MaxPagedAgencies == 6
\* Most agencies in a dataset of the sorting specification.
MaxSortAgencies == 4
\* How many of the four tables have their headers clicked in the sorting
\* specification (all four tables are rendered and observed).
MaxClickedTables == 2
\* Most agencies in a dataset of the specification with sparse year entries.
MaxSparseAgencies == 3
\* Most agencies in a dataset of the specification with repeated values.
MaxTiedAgencies == 6
\* Most agencies in a dataset of the specification of the whole dashboard.
MaxDashboardAgencies == 6
\* Most agencies in a dataset of the specification of long tables.
MaxLongAgencies == 11
\* Metric values of a year entry range over 0..MaxVal.
MaxVal == 2
\* Longest search query typed into the search box.
MaxQueryLen == 2
\* Most names in the list handed to the "specific" filter.
MaxSelected == 2

-----------------------------------------------------------------------------
(* Program constants.                                                      *)

agenciesPerPage == 5

Metrics == {"wordCount", "avgSentenceLength", "restrictiveness", "sentiment"}

\* The metrics in the order TableSection renders their tables.
MetricList == <<"wordCount", "avgSentenceLength", "restrictiveness", "sentiment">>

\* The years kept by filteredAgenciesData and shown as table columns.
years == {2024, 2025}

\* The column names a table header click passes to handleSort.
Columns == {"agency", "2024", "2025"}

\* Number(sortState.column) for the year columns.
NumberOf(column) == IF column = "2024" THEN 2024 ELSE 2025

\* The palette of ChartSection.
colors == <<"#FFD700", "#A9A9A9", "#808080", "#DAA520", "#696969">>

-----------------------------------------------------------------------------
(* JavaScript values and library functions used by the components.         *)

None == <<>>
Some(x) == <<x>>

Min(a, b) == IF a < b THEN a ELSE b
Max(a, b) == IF a > b THEN a ELSE b

\* Math.ceil(a / b) for a >= 0, b > 0.
MathCeilDiv(a, b) == (a + b - 1) \div b

\* Array.prototype.slice(start, end), 0-based, end exclusive, clamped.
Slice(arr, start, end) ==
    LET lo == Min(Max(start, 0), Len(arr))
        hi == Min(Max(end, lo), Len(arr))
    IN  SubSeq(arr, lo + 1, hi)

\* Array.prototype.includes.
Includes(arr, x) == \E i \in 1..Len(arr) : arr[i] = x

\* The alphabet of names and queries: two letters in both cases.
Alphabet == <<"a", "A", "b", "B">>

Chars == {Alphabet[i] : i \in 1..Len(Alphabet)}

LowerOf(c) == IF c = "A" THEN "a" ELSE IF c = "B" THEN "b" ELSE c

\* A variant of ToLowerCase that leaves the case as it is: with it, a query
\* typed in upper case no longer finds names spelled in lower case.
ToLowerCaseKeepsCase(s) == s

\* String.prototype.toLowerCase.
ToLowerCase(s) == [i \in 1..Len(s) |-> LowerOf(s[i])]

\* String.prototype.includes: q occurs in s as a contiguous substring.
StrIncludes(s, q) ==
    \E start \in 0..(Len(s) - Len(q)) : SubSeq(s, start + 1, start + Len(q)) = q

\* A variant of TruthyString that tests only for undefined, so that the empty
\* string passes: with it, an empty query reaches the "search" branch.
TruthyStringUnlessUndefined(opt) == opt # None

\* Truthiness of an optional string argument: undefined and "" are falsy.
TruthyString(opt) == opt # None /\ Len(opt[1]) > 0

\* Truthiness of an optional array argument: every array, [] included, is truthy.
TruthyArray(opt) == opt # None

\* A number, or NaN.
Num(n) == [nan |-> FALSE, n |-> n]
NaN == [nan |-> TRUE, n |-> 0]

\* rec[key]: Some(value), or None (undefined) when the record lacks the key.
Get(rec, key) == IF key \in DOMAIN rec THEN Some(rec[key]) ELSE None

\* x - y on two property reads: NaN when either is undefined.
Minus(x, y) == IF x = None \/ y = None THEN NaN ELSE Num(x[1] - y[1])

\* x || 0 on a property read: undefined and 0 give 0.
OrZero(x) == IF x = None THEN 0 ELSE x[1]

\* A comparator call: it returns a number or raises a TypeError.
Return(v) == [raises |-> FALSE, v |-> v]
Raise == [raises |-> TRUE, v |-> NaN]

Sgn(x) == IF x < 0 THEN -1 ELSE IF x > 0 THEN 1 ELSE 0

RECURSIVE Permutations(_)
\* All orderings of the index set S, as sequences.
Permutations(S) ==
    IF S = {} THEN {<<>>}
    ELSE UNION {{<<x>> \o p : p \in Permutations(S \ {x})} : x \in S}

\* Whether the comparator results C (C[i, j] for the i-th against the j-th
\* element) can raise between two elements.
CanRaise(C, n) == \E i, j \in 1..n : i # j /\ C[i, j].raises

\* The numbers the sort works with: a NaN result counts as +0.
SortCompare(C, n) ==
    [i \in 1..n, j \in 1..n |->
        IF C[i, j].raises \/ C[i, j].v.nan THEN 0 ELSE C[i, j].v.n]

\* ECMAScript's "consistent comparator": never raises, antisymmetric, and
\* transitive both for "equal" and for "less".
Consistent(V, n) ==
    /\ \A i, j \in 1..n : Sgn(V[i, j]) = -Sgn(V[j, i])
    /\ \A i, j, k \in 1..n :
          /\ (V[i, j] = 0 /\ V[j, k] = 0) => V[i, k] = 0
          /\ (V[i, j] < 0 /\ V[j, k] <= 0) => V[i, k] < 0
          /\ (V[i, j] <= 0 /\ V[j, k] < 0) => V[i, k] < 0

\* The stable ordering under a consistent comparator, as the sequence of the
\* elements' original positions: at position k stands the element with k - 1
\* elements before it.
StableOrder(V, n) ==
    LET before(i) == {j \in 1..n : V[j, i] < 0 \/ (V[j, i] = 0 /\ j < i)}
    IN  [k \in 1..n |-> CHOOSE i \in 1..n : Cardinality(before(i)) = k - 1]

\* The array that holds, in this order, the elements of arr at the positions
\* listed in order.
Reordered(arr, order) == [k \in 1..Len(order) |-> arr[order[k]]]

(***************************************************************************)
(* Array.prototype.sort(comparefn) on a copy: the set of outcomes          *)
(* [raises, order] ECMAScript allows (SortIndexedProperties), where order  *)
(* lists the original positions of the elements in their new order.  An    *)
(* array of fewer than two elements is returned without a comparator call. *)
(* When comparefn is a consistent comparator the result is the one stable  *)
(* ordering.  Otherwise the sequence of comparator calls and the resulting *)
(* order are implementation-defined: the sort may end with any permutation *)
(* and, if some call can raise, with that exception.                       *)
(***************************************************************************)
SortOutcomes(C, V, n) ==
    IF n < 2 THEN {[raises |-> FALSE, order |-> [k \in 1..n |-> k]]}
    ELSE IF ~CanRaise(C, n) /\ Consistent(V, n)
    THEN {[raises |-> FALSE, order |-> StableOrder(V, n)]}
    ELSE {[raises |-> TRUE, order |-> <<>>] : x \in {r \in {TRUE} : CanRaise(C, n)}}
         \cup {[raises |-> FALSE, order |-> p] : p \in Permutations(1..n)}

\* arr.sort(compare), given the comparator's outcome on every ordered pair of
\* elements: compared[i, j] is compare(arr[i], arr[j]).
ArraySort(arr, compared) ==
    UNION {UNION {SortOutcomes(C, V, Len(arr)) : V \in {SortCompare(C, Len(arr))}} :
              C \in {compared}}

(***************************************************************************)
(* Array.prototype.sort writes into its receiver.  Each sort of the        *)
(* agency list in App.tsx is called on a spread copy [...arr]; the sort of *)
(* createChartData is called on a spread copy of its `agencies` property.  *)
(***************************************************************************)

\* A variant of SortReceiver in which the sorts of App.tsx are called on the
\* imported array itself.
SortReceiverDataset == "dataset"

\* The receiver of the agency-list sorts of App.tsx: [...filteredAgenciesData].
SortReceiver == "copy"

\* A variant of ChartSortReceiver in which the chart sorts the array it was
\* handed, which is the selectedAgencies state of App.
ChartSortReceiverAgencies == "agencies"

\* The receiver of the sort in createChartData: [...agencies].
ChartSortReceiver == "copy"

-----------------------------------------------------------------------------
(* The dataset: agencies.json.                                             *)

\* One entry of an agency's data array.  The four metrics are derived from
\* one parameter so that their rankings differ between metrics.
YearMetric(year, v) ==
    [year |-> year, wordCount |-> v, avgSentenceLength |-> v + 1,
     restrictiveness |-> MaxVal - v, sentiment |-> v - 1]

\* An agency with the latest year only.
OneYear(v) == <<YearMetric(2025, v)>>

\* An agency with both displayed years; the 2024 value mirrors the 2025 one.
TwoYears(v) == <<YearMetric(2024, MaxVal - v), YearMetric(2025, v)>>

\* An agency with both displayed years and unrelated values in them.
BothYears(v, w) == <<YearMetric(2024, w), YearMetric(2025, v)>>

\* An agency with an older entry too, which the dashboard does not display.
ThreeYears(v) == <<YearMetric(2023, v), YearMetric(2024, MaxVal - v), YearMetric(2025, v)>>

\* An agency whose only entry is older than the displayed years.
OldOnly(v) == <<YearMetric(2023, v)>>

\* An agency whose latest entry holds the word count and no other metric.
LatestLacksMetrics(v) == <<YearMetric(2024, v), [year |-> 2025, wordCount |-> v]>>

\* Data arrays with and without gaps.
SparseSeries ==
    {TwoYears(v) : v \in 0..MaxVal} \cup {OldOnly(1), LatestLacksMetrics(1)}

\* Data arrays of either length.
MixedSeries == {OneYear(v) : v \in 0..MaxVal} \cup {TwoYears(v) : v \in 0..MaxVal}

\* The name of the i-th agency: distinct for i in 1..16.
NameOf(i) ==
    <<Alphabet[((i - 1) % 4) + 1], Alphabet[(((i - 1) \div 4 + (i - 1)) % 4) + 1]>>

\* A name no agency of any dataset has.
UnknownName == <<"b", "a", "b">>

\* The dataset of n agencies whose i-th agency has the data array f[i].
Dataset(n, f) == [i \in 1..n |-> [agency |-> NameOf(i), data |-> f[i]]]

\* Datasets in which every agency has both displayed years (every second
\* agency has an older entry too); the values rotate with the position and k.
FullDatasets(maxN) ==
    {Dataset(n, [i \in 1..n |-> IF i % 2 = 0 THEN ThreeYears((i + k) % (MaxVal + 1))
                                 ELSE TwoYears((i + k) % (MaxVal + 1))]) :
        n \in 0..maxN, k \in 0..MaxVal}

\* Datasets in which agencies may have one or two year entries.
MixedDatasets(maxN) ==
    UNION {{Dataset(n, f) : f \in [1..n -> MixedSeries]} : n \in 0..maxN}

\* Datasets for ranking: agencies with one or two year entries, and one size
\* more of agencies that all have both years.
RankDatasets(maxN) ==
    MixedDatasets(maxN)
    \cup {Dataset(maxN + 1, f) : f \in [1..(maxN + 1) -> {TwoYears(v) : v \in 0..MaxVal}]}

\* Datasets for paging: every size up to maxN, all agencies with both years
\* or the first agency with the latest year only.
PagedDatasets(maxN) ==
    UNION {{Dataset(n, [i \in 1..n |-> TwoYears(i % (MaxVal + 1))]),
            Dataset(n, [i \in 1..n |-> IF i = 1 THEN OneYear(0)
                                        ELSE TwoYears(i % (MaxVal + 1))])}
           : n \in 0..maxN}

\* Datasets in which agencies may lack the displayed years or a metric.
SparseDatasets(maxN) ==
    UNION {{Dataset(n, f) : f \in [1..n -> SparseSeries]} : n \in 0..maxN}

\* Datasets of twice three agencies or more, all with both displayed years,
\* under every assignment of values (so that values repeat).
TiedDatasets(maxN) ==
    UNION {{Dataset(n, f) : f \in [1..n -> {TwoYears(v) : v \in 0..MaxVal}]} :
              n \in (2 * 3)..maxN}

\* Datasets for the whole dashboard: the two largest sizes (one page and
\* two), all agencies with both displayed years, with values and sums over
\* the two years that repeat between some agencies and differ between others.
DashboardDatasets(maxN) ==
    {Dataset(n, [i \in 1..n |-> BothYears(i % (MaxVal + 1), (i \div 3) % (MaxVal + 1))]) :
        n \in {m \in {maxN - 1, maxN} : m >= 0}}

\* Datasets of several pages: every size up to maxN, all agencies with both
\* displayed years and values that repeat.
LongDatasets(maxN) ==
    {Dataset(n, [i \in 1..n |-> BothYears(i % (MaxVal + 1), (i \div 3) % (MaxVal + 1))]) :
        n \in 0..maxN}

\* Datasets for sorting: every size up to maxN, with values that repeat, and
\* with the second agency lacking the 2024 entry or no agency lacking one.
SortDatasets(maxN) ==
    {Dataset(n, [i \in 1..n |-> IF i = 2 /\ k > 0 THEN OneYear((i + k) % (MaxVal + 1))
                                 ELSE TwoYears((i + k) % (MaxVal + 1))]) :
        n \in 0..maxN, k \in 0..MaxVal}

-----------------------------------------------------------------------------
(* App: derived values of a render.                                        *)

filteredAgenciesData ==
    [i \in 1..Len(agenciesData) |->
        [agency |-> agenciesData[i].agency,
         data |-> SelectSeq(agenciesData[i].data, LAMBDA d : d.year \in years)]]

agencyOptions ==
    [i \in 1..Len(filteredAgenciesData) |->
        [label |-> filteredAgenciesData[i].agency,
         value |-> filteredAgenciesData[i].agency]]

-----------------------------------------------------------------------------
(* The record of the last handler call (a history variable for stating     *)
(* properties; no handler reads it).                                       *)

Call(handler, typed, filterType, selected, metric, column) ==
    [handler |-> handler, typed |-> typed, filterType |-> filterType,
     selected |-> selected, metric |-> metric, column |-> column]

NoCall == Call("none", None, "", None, None, "")

-----------------------------------------------------------------------------
(* TableSection: state and derived values.                                 *)

\* useState initial value of sortStates.
InitialSortStates == [m \in Metrics |-> [column |-> "2025", direction |-> "desc"]]

\* TableSection is declared inside App's body, so every render of App makes
\* a new component type: React unmounts the old TableSection and mounts a new
\* one, whose sortStates start again from the initial value.  A handler that
\* leaves App's state as it was causes no render of TableSection's parent.
SortStatesAfter(appRendered) == IF appRendered THEN InitialSortStates ELSE sortStates

\* String.prototype.localeCompare on the model's alphabet: letters first
\* (a before b, a prefix before its extensions), then, between strings with
\* the same letters, lower case before upper case at the first difference.
RECURSIVE LexLess(_, _, _)
LexLess(s, t, key) ==
    IF s = <<>> THEN t # <<>>
    ELSE IF t = <<>> THEN FALSE
    ELSE IF key[Head(s)] # key[Head(t)] THEN key[Head(s)] < key[Head(t)]
    ELSE LexLess(Tail(s), Tail(t), key)

LetterKey == [c \in Chars |-> IF LowerOf(c) = "a" THEN 0 ELSE 1]
CaseKey == [c \in Chars |-> IF c = LowerOf(c) THEN 0 ELSE 1]

LocaleCompare(s, t) ==
    IF LexLess(s, t, LetterKey) THEN -1
    ELSE IF LexLess(t, s, LetterKey) THEN 1
    ELSE IF LexLess(s, t, CaseKey) THEN -1
    ELSE IF LexLess(t, s, CaseKey) THEN 1
    ELSE 0

\* A variant of YearValue that falls back to the agency's last entry when it
\* has none for the year.
YearValueOrLatest(a, year, metric) ==
    LET hits == SelectSeq(a.data, LAMBDA d : d.year = year)
    IN  IF hits # <<>> THEN OrZero(Get(hits[1], metric))
        ELSE IF a.data = <<>> THEN 0
        ELSE OrZero(Get(a.data[Len(a.data)], metric))

\* a.data.find((d) => d.year === year)?.[metric] || 0
YearValue(a, year, metric) ==
    LET hits == SelectSeq(a.data, LAMBDA d : d.year = year)
    IN  IF hits = <<>> THEN 0 ELSE OrZero(Get(hits[1], metric))

\* The comparator of getSortedAgencies.
SortedCompare(a, b, metric, sortState) ==
    IF sortState.column = "agency"
    THEN Return(Num(IF sortState.direction = "asc"
                    THEN LocaleCompare(a.agency, b.agency)
                    ELSE LocaleCompare(b.agency, a.agency)))
    ELSE LET aValue == YearValue(a, NumberOf(sortState.column), metric)
             bValue == YearValue(b, NumberOf(sortState.column), metric)
         IN  Return(Num(IF sortState.direction = "asc"
                        THEN aValue - bValue ELSE bValue - aValue))

\* The comparator of getSortedAgencies on every ordered pair of arr.
SortedCompared(arr, metric, sortState) ==
    [i \in 1..Len(arr), j \in 1..Len(arr) |->
        SortedCompare(arr[i], arr[j], metric, sortState)]

\* getSortedAgencies under a given sort state ("" stands for null).
SortedBy(metric, sortState) ==
    IF sortState.column = "" \/ sortState.direction = ""
    THEN filteredAgenciesData
    ELSE Reordered(filteredAgenciesData,
                   (CHOOSE o \in ArraySort(filteredAgenciesData,
                                           SortedCompared(filteredAgenciesData,
                                                          metric, sortState)) :
                       ~o.raises).order)

getSortedAgencies(metric) == SortedBy(metric, sortStates[metric])

\* The sorts a render of TableSection performs under the given sort states.
TableSorts(states) ==
    UNION {ArraySort(filteredAgenciesData,
                     SortedCompared(filteredAgenciesData, m, states[m])) : m \in Metrics}

\* What the imported dataset holds after the given sorts of the agency list:
\* nothing new, because each of them writes into a copy.
DatasetsAfter(sorts) ==
    IF SortReceiver = "copy" THEN {agenciesData}
    ELSE {IF o.raises THEN agenciesData ELSE Reordered(agenciesData, o.order) :
             o \in sorts}

totalAgencies == Len(filteredAgenciesData)

totalPages == MathCeilDiv(totalAgencies, agenciesPerPage)

\* A variant of PageSlice that takes the page number for a 0-based index:
\* the first row of page p is row p * agenciesPerPage of the sorted list.
PageSliceFromPageIndex(metric, page) ==
    LET startIndex == page * agenciesPerPage
    IN  Slice(getSortedAgencies(metric), startIndex, startIndex + agenciesPerPage)

\* The rows of one metric's table on a given page.
PageSlice(metric, page) ==
    LET startIndex == (page - 1) * agenciesPerPage
    IN  Slice(getSortedAgencies(metric), startIndex, startIndex + agenciesPerPage)

paginatedAgencies(metric) == PageSlice(metric, currentPage)

\* disabled={currentPage === 1} and disabled={currentPage === totalPages}.
PreviousDisabled == currentPage = 1
NextDisabled == currentPage = totalPages

\* The updaters handed to setCurrentPage.
PreviousPage(prev) == Max(prev - 1, 1)
NextPage(prev) == Min(prev + 1, totalPages)

\* A variant of newDirection that starts a newly clicked column descending
\* and toggles from there (the behaviour of an earlier revision of the table).
newDirectionDescendingFirst(current, column) ==
    IF current.column = column /\ current.direction = "desc" THEN "asc" ELSE "desc"

\* A variant of newDirection that never leaves descending: a click on the
\* column a table is already sorted by stores "desc" whatever the direction.
newDirectionStaysDescending(current, column) ==
    IF current.column = column THEN "desc" ELSE "asc"

\* The direction handleSort stores for a click on column.
newDirection(current, column) ==
    IF current.column = column /\ current.direction = "asc" THEN "desc" ELSE "asc"

-----------------------------------------------------------------------------
(* ChartSection: the four charts of the selected agencies.                 *)

\* The years charted, in label order.
chartYears == <<2024, 2025>>

\* The sort direction state of a metric's chart.
ChartDirection(metric) ==
    IF metric = "wordCount" THEN wordCountSort
    ELSE IF metric = "avgSentenceLength" THEN sentenceLengthSort
    ELSE IF metric = "restrictiveness" THEN restrictivenessSort
    ELSE sentimentSort

\* The entries of a data array for the charted years.
ChartedEntries(data) == SelectSeq(data, LAMBDA d : Includes(chartYears, d.year))

RECURSIVE ReduceSum(_, _, _)
\* reduce((sum, d) => sum + (d[metric] || 0), 0) over the first k entries.
ReduceSum(entries, metric, k) ==
    IF k = 0 THEN 0
    ELSE ReduceSum(entries, metric, k - 1) + OrZero(Get(entries[k], metric))

\* aValue and bValue of the chart's comparator.
ChartValue(a, metric) ==
    ReduceSum(ChartedEntries(a.data), metric, Len(ChartedEntries(a.data)))

\* The comparator of createChartData on every ordered pair of arr.
ChartCompared(arr, metric, direction) ==
    [i \in 1..Len(arr), j \in 1..Len(arr) |->
        Return(Num(IF direction = "desc"
                   THEN ChartValue(arr[j], metric) - ChartValue(arr[i], metric)
                   ELSE ChartValue(arr[i], metric) - ChartValue(arr[j], metric)))]

\* The order in which createChartData lists the agencies of arr.
ChartOrder(arr, metric, direction) ==
    (CHOOSE o \in ArraySort(arr, ChartCompared(arr, metric, direction)) : ~o.raises).order

\* The charted values of one agency: its entries for the charted years in
\* year order, the word count divided by 1,000,000 (kept as value and divisor).
ChartedData(agency, metric) ==
    LET entries == ChartedEntries(agency.data)
        byYear == [i \in 1..Len(entries), j \in 1..Len(entries) |->
                      Return(Num(entries[i].year - entries[j].year))]
        sorted == Reordered(entries,
                            (CHOOSE o \in ArraySort(entries, byYear) : ~o.raises).order)
    IN  [k \in 1..Len(sorted) |->
            [value |-> Get(sorted[k], metric),
             divisor |-> IF metric = "wordCount" THEN 1000000 ELSE 1]]

\* A variant of PaletteIndex that colours an agency by its place in the
\* selection instead of its place in the chart's sorted order.
PaletteIndexBySelection(order, index) == (order[index] - 1) % Len(colors)

\* The palette index of the dataset at (0-based) position index - 1.
PaletteIndex(order, index) == (index - 1) % Len(colors)

\* createChartData for the agencies arr.
ChartDataOf(arr, metric, direction) ==
    LET order == ChartOrder(arr, metric, direction)
        sortedAgencies == Reordered(arr, order)
    IN  [labels |-> chartYears,
         datasets |->
            [index \in 1..Len(sortedAgencies) |->
                [label |-> sortedAgencies[index].agency,
                 data |-> ChartedData(sortedAgencies[index], metric),
                 backgroundColor |-> colors[PaletteIndex(order, index) + 1],
                 borderColor |-> colors[PaletteIndex(order, index) + 1]]]]

\* The chart data the component shows for a metric.
createChartData(metric) == ChartDataOf(selectedAgencies, metric, ChartDirection(metric))

\* Charts with their directions: the pairs <<metric, direction>> recomputed.
ChartsOf(metrics) == {<<m, ChartDirection(m)>> : m \in metrics}

\* What the selection holds after the given charts were recomputed from it:
\* the same array, because each chart sorts a copy.
SelectionsAfterCharts(selection, charts) ==
    IF ChartSortReceiver = "copy" THEN {selection}
    ELSE {Reordered(selection, ChartOrder(selection, c[1], c[2])) : c \in charts}

-----------------------------------------------------------------------------
(* App: the mount effect and handleFilter.                                 *)

\* data[data.length - 1][metric] of one agency: None (undefined) when the
\* entry lacks the metric; the read raises when the array is empty.
LatestRaises(a) == a.data = <<>>
Latest(a, metric) == Get(a.data[Len(a.data)], metric)

\* The comparator of the mount effect: b.latest.wordCount - a.latest.wordCount.
MountCompare(a, b) ==
    IF LatestRaises(a) \/ LatestRaises(b) THEN Raise
    ELSE Return(Minus(Latest(b, "wordCount"), Latest(a, "wordCount")))

\* The row of b the "top3" and "bottom3" comparators read: a.data.length - 1.
BRow(a, b) == Len(a.data)

\* The comparator of the "top3" branch.
Top3Compare(a, b, metric) ==
    IF LatestRaises(a) \/ BRow(a, b) < 1 \/ BRow(a, b) > Len(b.data) THEN Raise
    ELSE Return(Minus(Get(b.data[BRow(a, b)], metric), Latest(a, metric)))

\* The comparator of the "bottom3" branch.
Bottom3Compare(a, b, metric) ==
    IF LatestRaises(a) \/ BRow(a, b) < 1 \/ BRow(a, b) > Len(b.data) THEN Raise
    ELSE Return(Minus(Latest(a, metric), Get(b.data[BRow(a, b)], metric)))

\* arr.sort(...) then slice(0, 3), given the outcomes of the sort.
FirstThree(arr, outcomes) ==
    {[raises |-> s.raises, value |-> Reordered(arr, s.order)] :
        s \in {[raises |-> o.raises, order |-> Slice(o.order, 0, 3)] : o \in outcomes}}

\* A variant of FilterSpecific that walks the list of names instead of the
\* dataset, so that the selection comes out in the order of the names.
FilterSpecificInListOrder(selected) ==
    LET known == SelectSeq(selected,
                           LAMBDA name : \E i \in 1..Len(filteredAgenciesData) :
                                             filteredAgenciesData[i].agency = name)
    IN  [k \in 1..Len(known) |->
            filteredAgenciesData[CHOOSE i \in 1..Len(filteredAgenciesData) :
                                     filteredAgenciesData[i].agency = known[k]]]

\* The "specific" branch.
FilterSpecific(selected) ==
    SelectSeq(filteredAgenciesData, LAMBDA agency : Includes(selected, agency.agency))

\* The "search" branch.
FilterSearch(metric) ==
    SelectSeq(filteredAgenciesData,
              LAMBDA agency : StrIncludes(ToLowerCase(agency.agency), metric))

\* A variant of FilterDefault that falls back to the whole dataset.
FilterDefaultWholeList == filteredAgenciesData

\* The final else branch.
FilterDefault == Slice(filteredAgenciesData, 0, 3)

\* The three comparators on every ordered pair of arr.
MountCompared(arr) ==
    [i \in 1..Len(arr), j \in 1..Len(arr) |-> MountCompare(arr[i], arr[j])]

Top3Compared(arr, metric) ==
    [i \in 1..Len(arr), j \in 1..Len(arr) |-> Top3Compare(arr[i], arr[j], metric)]

Bottom3Compared(arr, metric) ==
    [i \in 1..Len(arr), j \in 1..Len(arr) |-> Bottom3Compare(arr[i], arr[j], metric)]

\* The value handleFilter computes for `filtered`, or the exception it ends with.
FilterOutcomes(filterType, selected, metric) ==
    IF filterType = "top3" /\ TruthyString(metric)
    THEN FirstThree(filteredAgenciesData,
                    ArraySort(filteredAgenciesData,
                              Top3Compared(filteredAgenciesData, metric[1])))
    ELSE IF filterType = "bottom3" /\ TruthyString(metric)
    THEN FirstThree(filteredAgenciesData,
                    ArraySort(filteredAgenciesData,
                              Bottom3Compared(filteredAgenciesData, metric[1])))
    ELSE IF filterType = "specific" /\ TruthyArray(selected)
    THEN {[raises |-> FALSE, value |-> FilterSpecific(selected[1])]}
    ELSE IF filterType = "search" /\ TruthyString(metric)
    THEN {[raises |-> FALSE, value |-> FilterSearch(metric[1])]}
    ELSE {[raises |-> FALSE, value |-> FilterDefault]}

\* The sort handleFilter performs, if any.
FilterSorts(filterType, metric) ==
    IF filterType = "top3" /\ TruthyString(metric)
    THEN ArraySort(filteredAgenciesData, Top3Compared(filteredAgenciesData, metric[1]))
    ELSE IF filterType = "bottom3" /\ TruthyString(metric)
    THEN ArraySort(filteredAgenciesData, Bottom3Compared(filteredAgenciesData, metric[1]))
    ELSE {}

\* useEffect(() => {...}, []): runs once, after the first render.  An
\* exception in an effect, with no error boundary, unmounts the application.
MountEffect ==
    /\ phase = "mounting"
    /\ \E o \in FirstThree(filteredAgenciesData,
                          ArraySort(filteredAgenciesData,
                                    MountCompared(filteredAgenciesData))) :
          /\ phase' = IF o.raises THEN "crashed" ELSE "ready"
          /\ selectedAgencies' \in IF o.raises THEN {selectedAgencies}
                                   ELSE SelectionsAfterCharts(o.value, ChartsOf(Metrics))
          /\ threw' = o.raises
    /\ agenciesData' \in DatasetsAfter(ArraySort(filteredAgenciesData,
                                                 MountCompared(filteredAgenciesData))
                                       \cup TableSorts(InitialSortStates))
    /\ sortStates' = InitialSortStates
    /\ lastCall' = Call("useEffect", None, "", None, None, "")
    /\ UNCHANGED <<currentPage, chartVars>>

\* handleFilter, entered from `handler` (`typed` is what the user typed, if
\* anything).  When the sort raises, neither setter is reached.
handleFilterFrom(handler, typed, filterType, selected, metric) ==
    /\ phase = "ready"
    /\ \E o \in FilterOutcomes(filterType, selected, metric) :
          /\ selectedAgencies' \in IF o.raises THEN {selectedAgencies}
                                   ELSE SelectionsAfterCharts(o.value, ChartsOf(Metrics))
          /\ currentPage' = IF o.raises THEN currentPage ELSE 1
          /\ sortStates' = SortStatesAfter(~o.raises)
          /\ threw' = o.raises
    /\ agenciesData' \in DatasetsAfter(FilterSorts(filterType, metric)
                                       \cup TableSorts(InitialSortStates))
    /\ lastCall' = Call(handler, typed, filterType, selected, metric, "")
    /\ UNCHANGED <<chartVars, phase>>

handleFilter(filterType, selected, metric) ==
    handleFilterFrom("onFilter", None, filterType, selected, metric)

-----------------------------------------------------------------------------
(* FilterBar: the four preset buttons, the multi-select and the search box.*)
(* FilterBar's own state (the controls' displayed values) is written by    *)
(* its handlers and read only to redraw the controls; it is left out.      *)

AllAgenciesClick ==
    handleFilterFrom("AllAgenciesClick", None, "all", None, None)

Top3WordCountClick ==
    handleFilterFrom("Top3WordCountClick", None, "top3", None, Some("wordCount"))

Top3RestrictivenessClick ==
    handleFilterFrom("Top3RestrictivenessClick", None, "top3", None,
                     Some("restrictiveness"))

Bottom3SentimentClick ==
    handleFilterFrom("Bottom3SentimentClick", None, "bottom3", None, Some("sentiment"))

\* onChange of the multi-select: `selected` holds the chosen options' values.
handleAgencyChange(selected) ==
    handleFilterFrom("handleAgencyChange", None, "specific", Some(selected), None)

\* onChange of the search box: `value` is e.target.value.
handleSearch(value) ==
    handleFilterFrom("handleSearch", Some(value), "search", None,
                     Some(ToLowerCase(value)))

-----------------------------------------------------------------------------
(* TableSection: the pager buttons and the column headers.                 *)

PreviousClick ==
    /\ phase = "ready"
    /\ ~PreviousDisabled
    /\ currentPage' = PreviousPage(currentPage)
    /\ sortStates' = SortStatesAfter(currentPage' # currentPage)
    /\ agenciesData' \in DatasetsAfter(TableSorts(sortStates'))
    /\ threw' = FALSE
    /\ lastCall' = Call("PreviousClick", None, "", None, None, "")
    /\ UNCHANGED <<selectedAgencies, chartVars, phase>>

NextClick ==
    /\ phase = "ready"
    /\ ~NextDisabled
    /\ currentPage' = NextPage(currentPage)
    /\ sortStates' = SortStatesAfter(currentPage' # currentPage)
    /\ agenciesData' \in DatasetsAfter(TableSorts(sortStates'))
    /\ threw' = FALSE
    /\ lastCall' = Call("NextClick", None, "", None, None, "")
    /\ UNCHANGED <<selectedAgencies, chartVars, phase>>

\* A variant of sortStatesUpdater with one sort state for all four tables:
\* the clicked column and the new direction are stored under every metric.
sortStatesUpdaterGlobal(prev, metric, column) ==
    [m \in Metrics |->
        [column |-> column, direction |-> newDirection(prev[metric], column)]]

\* The updater handleSort hands to setSortStates:
\* (prev) => ({ ...prev, [metric]: { column, direction: newDirection } }).
sortStatesUpdater(prev, metric, column) ==
    [prev EXCEPT ![metric] =
        [column |-> column, direction |-> newDirection(prev[metric], column)]]

handleSort(metric, column) ==
    /\ phase = "ready"
    /\ sortStates' = sortStatesUpdater(sortStates, metric, column)
    /\ agenciesData' \in DatasetsAfter(TableSorts(sortStates'))
    /\ threw' = FALSE
    /\ lastCall' = Call("handleSort", None, "", None, Some(metric), column)
    /\ UNCHANGED <<selectedAgencies, currentPage, chartVars, phase>>

-----------------------------------------------------------------------------
(* ChartSection: a click on a chart's title.                               *)

\* setSortDirection(sortDirection === "desc" ? "asc" : "desc")
Toggle(sortDirection) == IF sortDirection = "desc" THEN "asc" ELSE "desc"

ChartHeaderClick(metric) ==
    /\ phase = "ready"
    /\ wordCountSort' =
          IF metric = "wordCount" THEN Toggle(wordCountSort) ELSE wordCountSort
    /\ sentenceLengthSort' =
          IF metric = "avgSentenceLength" THEN Toggle(sentenceLengthSort)
          ELSE sentenceLengthSort
    /\ restrictivenessSort' =
          IF metric = "restrictiveness" THEN Toggle(restrictivenessSort)
          ELSE restrictivenessSort
    /\ sentimentSort' =
          IF metric = "sentiment" THEN Toggle(sentimentSort) ELSE sentimentSort
    /\ selectedAgencies' \in
          SelectionsAfterCharts(selectedAgencies,
                                {<<metric, Toggle(ChartDirection(metric))>>})
    /\ threw' = FALSE
    /\ lastCall' = Call("ChartHeaderClick", None, "", None, Some(metric), "")
    /\ UNCHANGED <<agenciesData, currentPage, sortStates, phase>>

-----------------------------------------------------------------------------
(* Inputs.                                                                 *)

\* Sequences over S of length at most maxLen.
SeqsUpTo(S, maxLen) == UNION {[1..k -> S] : k \in 0..maxLen}

\* What can be typed into the search box.
Queries == SeqsUpTo(Chars, MaxQueryLen)

\* Lists of distinct elements of S of length at most maxLen.
ListsOf(S, maxLen) ==
    {l \in SeqsUpTo(S, maxLen) : \A i, j \in 1..Len(l) : i # j => l[i] # l[j]}

\* The values of the multi-select's options.
OptionValues == {agencyOptions[i].value : i \in 1..Len(agencyOptions)}

\* The multi-select with its first j options chosen, for every j.
OptionPrefixes ==
    {[k \in 1..j |-> agencyOptions[k].value] : j \in 0..Len(agencyOptions)}

\* Lists of names that hold a name no agency has.
UnknownLists ==
    {l \in ListsOf(OptionValues \cup {UnknownName}, MaxSelected) : Includes(l, UnknownName)}

\* Argument lists <<filterType, selected, metric>> of direct handleFilter calls.
DirectCalls ==
    {<<ft, None, m>> : ft \in {"top3", "bottom3"},
                       m \in {None, Some("")} \cup {Some(x) : x \in Metrics}}
    \cup {<<"specific", sel, None>> :
             sel \in {None} \cup {Some(l) : l \in UnknownLists}}
    \cup {<<"search", None, m>> : m \in {None} \cup {Some(q) : q \in SeqsUpTo(Chars, 1)}}
    \cup {<<ft, sel, m>> : ft \in {"all", "other"},
                           sel \in {None, Some(<<>>), Some(<<NameOf(1)>>)},
                           m \in {None, Some("wordCount")}}

-----------------------------------------------------------------------------
(* Specifications.                                                         *)

InitWith(datasets) ==
    /\ agenciesData \in datasets
    /\ selectedAgencies = <<>>
    /\ currentPage = 1
    /\ sortStates = InitialSortStates
    /\ wordCountSort = "desc"
    /\ sentenceLengthSort = "desc"
    /\ restrictivenessSort = "desc"
    /\ sentimentSort = "desc"
    /\ phase = "mounting"
    /\ threw = FALSE
    /\ lastCall = NoCall

\* The filter controls on datasets in which every agency has both years.
InitFilter == InitWith(FullDatasets(MaxAgencies))

NextFilter ==
    \/ MountEffect
    \/ AllAgenciesClick
    \/ Top3WordCountClick
    \/ Top3RestrictivenessClick
    \/ Bottom3SentimentClick
    \/ \E selected \in ListsOf(OptionValues, MaxSelected) : handleAgencyChange(selected)
    \/ \E value \in Queries : handleSearch(value)
    \/ \E args \in DirectCalls : handleFilter(args[1], args[2], args[3])

SpecFilter == InitFilter /\ [][NextFilter]_vars

\* The ranking filters on datasets whose agencies have one or two year entries.
InitRank == InitWith(RankDatasets(MaxRankAgencies))

NextRank ==
    \/ MountEffect
    \/ \E ft \in {"top3", "bottom3"}, m \in Metrics : handleFilter(ft, None, Some(m))

SpecRank == InitRank /\ [][NextRank]_vars

\* The pager together with the filter controls, on datasets of up to two pages.
InitPage == InitWith(PagedDatasets(MaxPagedAgencies))

NextPaging ==
    \/ MountEffect
    \/ NextClick
    \/ PreviousClick
    \/ AllAgenciesClick
    \/ Top3WordCountClick
    \/ Top3RestrictivenessClick
    \/ Bottom3SentimentClick
    \/ \E selected \in ListsOf(OptionValues, 1) : handleAgencyChange(selected)
    \/ \E value \in SeqsUpTo(Chars, 1) : handleSearch(value)
    \/ handleFilter("other", None, None)

SpecPage == InitPage /\ [][NextPaging]_vars

\* The tables' column headers and pager.
InitTable == InitWith(PagedDatasets(MaxPagedAgencies))

NextTable ==
    \/ MountEffect
    \/ NextClick
    \/ PreviousClick
    \/ \E metric \in Metrics, column \in Columns : handleSort(metric, column)

SpecTable == InitTable /\ [][NextTable]_vars

\* The metrics of the last k tables.
LastTables(k) == {MetricList[i] : i \in (Len(MetricList) - k + 1)..Len(MetricList)}

\* The column headers of some of the tables, on datasets of one page.
InitSort == InitWith(SortDatasets(MaxSortAgencies))

NextSort ==
    \/ MountEffect
    \/ \E metric \in LastTables(Min(MaxClickedTables, Len(MetricList))),
          column \in Columns : handleSort(metric, column)

SpecSort == InitSort /\ [][NextSort]_vars

\* The startup selection and the ranking filters on datasets with gaps.
InitSparse == InitWith(SparseDatasets(MaxSparseAgencies))

NextSparse ==
    \/ MountEffect
    \/ \E ft \in {"top3", "bottom3"}, m \in Metrics : handleFilter(ft, None, Some(m))

SpecSparse == InitSparse /\ [][NextSparse]_vars

\* The ranking filters on datasets large enough for two selections of three.
InitTied == InitWith(TiedDatasets(MaxTiedAgencies))

NextTied ==
    \/ MountEffect
    \/ \E ft \in {"top3", "bottom3"}, m \in Metrics : handleFilter(ft, None, Some(m))

SpecTied == InitTied /\ [][NextTied]_vars

\* One table's column headers and the pager, on datasets of up to three pages.
InitLong == InitWith(LongDatasets(MaxLongAgencies))

NextLong ==
    \/ MountEffect
    \/ NextClick
    \/ PreviousClick
    \/ \E column \in Columns : handleSort(MetricList[Len(MetricList)], column)

SpecLong == InitLong /\ [][NextLong]_vars

\* Every control of the dashboard: filters, pager, one table's headers and
\* the four chart titles.
InitDashboard == InitWith(DashboardDatasets(MaxDashboardAgencies))

NextDashboard ==
    \/ MountEffect
    \/ AllAgenciesClick
    \/ Top3WordCountClick
    \/ Bottom3SentimentClick
    \/ \E selected \in OptionPrefixes : handleAgencyChange(selected)
    \/ NextClick
    \/ PreviousClick
    \/ \E column \in Columns : handleSort(MetricList[Len(MetricList)], column)
    \/ \E metric \in Metrics : ChartHeaderClick(metric)

SpecDashboard == InitDashboard /\ [][NextDashboard]_vars

-----------------------------------------------------------------------------
(* Properties.  The expected values below are stated on their own terms    *)
(* (by position and rank), not through the operators that model the code.  *)

\* The last call was a use of handleFilter that returned (or raised).
FilterCalled == phase = "ready" /\ lastCall.filterType # ""

\* The names of a list of agencies, in order.
NamesOf(agencies) == [k \in 1..Len(agencies) |-> agencies[k].agency]

\* The elements of arr at the positions in I, in their original order.
KeepWhere(arr, I) ==
    [k \in 1..Cardinality(I) |->
        arr[CHOOSE i \in I : Cardinality({j \in I : j < i}) = k - 1]]

\* The first three agencies of the dataset (all of them when fewer).
ExpectedFirstThree ==
    KeepWhere(filteredAgenciesData, {i \in 1..Len(agenciesData) : i <= 3})

\* The value of metric in the latest year entry of the i-th agency.
LatestValue(i, metric) ==
    LET d == filteredAgenciesData[i].data IN d[Len(d)][metric]

\* The agencies with the largest latest-year values: at position k stands the
\* agency that exactly k - 1 others outrank (a larger value, or the same
\* value and an earlier place in the dataset).
ExpectedTop3(metric) ==
    LET n == Len(agenciesData)
        outranks(j, i) ==
            \/ LatestValue(j, metric) > LatestValue(i, metric)
            \/ LatestValue(j, metric) = LatestValue(i, metric) /\ j < i
        place(i) == Cardinality({j \in 1..n : outranks(j, i)}) + 1
    IN  [k \in 1..Min(3, n) |->
            filteredAgenciesData[CHOOSE i \in 1..n : place(i) = k]]

\* Two characters are the same letter, whatever their case.
SameLetter(c, d) == c = d \/ {c, d} = {"a", "A"} \/ {c, d} = {"b", "B"}

\* q occurs in name at some offset, comparing letters without their case.
ContainsIgnoringCase(name, q) ==
    \E off \in 0..(Len(name) - Len(q)) :
        \A k \in 1..Len(q) : SameLetter(name[off + k], q[k])

\* ceil(n / pageSize), found by search.
ExpectedPages(n) ==
    CHOOSE p \in 0..n : p * agenciesPerPage >= n /\ (p - 1) * agenciesPerPage < n

\* C1: after handleFilter("all") with no selected list and no metric, the
\* selection is the full agency list: same length, same members, same order.
C1_AllSelectsFullList ==
    (FilterCalled /\ lastCall.filterType = "all"
        /\ lastCall.selected = None /\ lastCall.metric = None)
    => (~threw /\ NamesOf(selectedAgencies) = NamesOf(agenciesData))

\* C2: after handleFilter("top3", metric) the selection is the min(3, count)
\* agencies with the largest latest-year value of the metric, in descending
\* order, ties in dataset order, also when agencies differ in their number of
\* year entries.
C2_Top3SelectsLargestLatest ==
    (FilterCalled /\ lastCall.filterType = "top3" /\ TruthyString(lastCall.metric))
    => (~threw /\ selectedAgencies = ExpectedTop3(lastCall.metric[1]))

C4_SearchIgnoresCase ==
    (FilterCalled /\ lastCall.handler = "handleSearch" /\ lastCall.typed # Some(<<>>))
    => /\ ~threw
       /\ selectedAgencies =
             KeepWhere(filteredAgenciesData,
                       {i \in 1..Len(agenciesData) :
                           ContainsIgnoringCase(agenciesData[i].agency, lastCall.typed[1])})

\* C4's case: a query with an upper-case letter selected some agencies whose
\* names spell it in another case, and left others out.
C4_Witness ==
    /\ FilterCalled /\ lastCall.handler = "handleSearch"
    /\ lastCall.typed = Some(<<"B">>)
    /\ \E k \in 1..Len(selectedAgencies) : selectedAgencies[k].agency = <<"b", "b">>
    /\ Len(selectedAgencies) < Len(agenciesData)

\* C5: after handleFilter("specific", names) the selection is exactly the
\* agencies whose name is in the list, in dataset order whatever the order of
\* the names; unknown names are ignored and an empty list selects nothing.
C5_SpecificKeepsDatasetOrder ==
    (FilterCalled /\ lastCall.filterType = "specific" /\ lastCall.selected # None)
    => /\ ~threw
       /\ selectedAgencies =
             KeepWhere(filteredAgenciesData,
                       {i \in 1..Len(agenciesData) :
                           \E k \in 1..Len(lastCall.selected[1]) :
                               lastCall.selected[1][k] = agenciesData[i].agency})

\* C5's case: two names given in the reverse of their dataset order selected
\* both agencies.
C5_Witness ==
    /\ FilterCalled /\ lastCall.filterType = "specific"
    /\ lastCall.selected = Some(<<NameOf(3), NameOf(1)>>)
    /\ NamesOf(selectedAgencies) = <<NameOf(1), NameOf(3)>>

\* C5's other cases: an unknown name beside a known one, and the empty list.
C5_WitnessUnknown ==
    /\ FilterCalled /\ lastCall.filterType = "specific"
    /\ lastCall.selected = Some(<<UnknownName, NameOf(2)>>)
    /\ NamesOf(selectedAgencies) = <<NameOf(2)>>

\* C6: every invocation of handleFilter leaves the current page equal to 1.
C6_FilterResetsPage == FilterCalled => currentPage = 1

\* C7: handleFilter with a mode that is none of top3, bottom3, specific and
\* search, or with top3/bottom3 and no metric, or with specific and no list,
\* raises nothing and selects the first three agencies in original order.
C7_FallbackSelectsFirstThree ==
    (/\ FilterCalled
     /\ \/ lastCall.filterType \notin {"top3", "bottom3", "specific", "search"}
        \/ lastCall.filterType \in {"top3", "bottom3"} /\ ~TruthyString(lastCall.metric)
        \/ lastCall.filterType = "specific" /\ lastCall.selected = None)
    => (~threw /\ selectedAgencies = ExpectedFirstThree)

\* C7's case: an unknown mode on a dataset of more than three agencies.
C7_Witness ==
    /\ FilterCalled /\ lastCall.filterType = "other"
    /\ Len(agenciesData) > 3
    /\ NamesOf(selectedAgencies) = <<NameOf(1), NameOf(2), NameOf(3)>>

\* C8: in every state of the running dashboard, totalPages is
\* max(1, ceil(count / 5)) and 1 <= currentPage <= totalPages.
C8_PageWithinRange ==
    phase = "ready"
    => /\ totalPages = Max(1, ExpectedPages(Len(agenciesData)))
       /\ 1 <= currentPage
       /\ currentPage <= totalPages

\* C9: Previous on page 1 and Next on the last page are disabled and their
\* handlers would change nothing; whenever the buttons are enabled, Next adds
\* exactly 1 to the page and Previous subtracts exactly 1.
C9_PagerSteps ==
    [][/\ PreviousDisabled => PreviousPage(currentPage) = currentPage
       /\ NextDisabled => NextPage(currentPage) = currentPage
       /\ NextClick => currentPage' = currentPage + 1
       /\ PreviousClick => currentPage' = currentPage - 1]_vars

\* C10: handleSort(metric, column) stores the clicked column; the direction
\* is descending only when the column was already that metric's sort column
\* with direction ascending, and ascending in every other case.
C10_SortToggle ==
    [][\A metric \in Metrics, column \in Columns :
          handleSort(metric, column)
          => /\ sortStates'[metric].column = column
             /\ sortStates'[metric].direction = "desc"
                   <=> (sortStates[metric].column = column
                        /\ sortStates[metric].direction = "asc")
             /\ sortStates'[metric].direction \in {"asc", "desc"}]_vars

\* C10's case: a second click on the same column turned ascending into
\* descending, while another metric's table is sorted by another column.
C10_Witness ==
    /\ lastCall.handler = "handleSort"
    /\ lastCall.metric = Some("sentiment")
    /\ sortStates["sentiment"] = [column |-> "agency", direction |-> "desc"]
    /\ sortStates["wordCount"] = [column |-> "2024", direction |-> "asc"]

\* The displayed value of metric in the year column of the i-th agency: that
\* of its first entry for the year, 0 when it has none.
ExpectedCell(i, year, metric) ==
    LET d == agenciesData[i].data
        at == {k \in 1..Len(d) : d[k].year = year}
    IN  IF at = {} THEN 0
        ELSE d[CHOOSE k \in at : \A l \in at : k <= l][metric]

\* C11: whenever a metric's table is sorted ascending by a column, two clicks
\* on that column's header pass through the descending state of that column
\* and end in a state in which the table shows exactly the agency sequence it
\* showed before the two clicks, also when agencies have equal values.
C11_SortRoundTrip ==
    phase = "ready"
    => \A metric \in Metrics, column \in Columns :
          sortStates[metric] = [column |-> column, direction |-> "asc"]
          => LET once == sortStatesUpdater(sortStates, metric, column)
                 twice == sortStatesUpdater(once, metric, column)
             IN  /\ once[metric] = [column |-> column, direction |-> "desc"]
                 /\ SortedBy(metric, twice[metric]) = getSortedAgencies(metric)

\* C11's case: a table was clicked into the ascending order of a year column
\* in which two agencies have equal values, and that order is neither the
\* dataset's order nor the same as the descending one.
C11_Witness ==
    /\ phase = "ready" /\ lastCall.handler = "handleSort"
    /\ sortStates["sentiment"] = [column |-> "2024", direction |-> "asc"]
    /\ \E i, j \in 1..Len(agenciesData) :
          i # j /\ ExpectedCell(i, 2024, "sentiment") = ExpectedCell(j, 2024, "sentiment")
    /\ getSortedAgencies("sentiment") # filteredAgenciesData
    /\ getSortedAgencies("sentiment")
          # SortedBy("sentiment", [column |-> "2024", direction |-> "desc"])

\* C12: a click on a column header of one metric's table leaves the sort
\* states of the other three metrics as they were, and with them the row
\* order shown in each of the other three tables (the rows the table's sort
\* gives for the dataset, which the click does not touch, under the sort
\* state the table has after the click).
C12_SortPerMetric ==
    [][\A metric \in Metrics, column \in Columns :
          handleSort(metric, column)
          => \A other \in Metrics \ {metric} :
                /\ sortStates'[other] = sortStates[other]
                /\ agenciesData' = agenciesData
                /\ SortedBy(other, sortStates'[other]) = getSortedAgencies(other)]_vars

\* C12's case: the restrictiveness table was clicked into ascending order by
\* name while the sentiment table stays sorted by 2024, and the two tables
\* show different row orders.
C12_Witness ==
    /\ lastCall.handler = "handleSort" /\ lastCall.metric = Some("restrictiveness")
    /\ sortStates["restrictiveness"] = [column |-> "agency", direction |-> "asc"]
    /\ sortStates["sentiment"] = [column |-> "2024", direction |-> "asc"]
    /\ getSortedAgencies("restrictiveness") # getSortedAgencies("sentiment")

\* The dataset position of the agency in row k of a table.
RowAgency(rows, k) ==
    CHOOSE i \in 1..Len(agenciesData) : agenciesData[i].agency = rows[k].agency

\* Whether the agency at dataset position i belongs before the one at
\* position j under a sort state: by name for the column "agency", else by
\* the year's value with equal values in dataset order.
BelongsBefore(i, j, metric, sortState) ==
    IF sortState.column = "agency"
    THEN IF sortState.direction = "asc"
         THEN LocaleCompare(agenciesData[i].agency, agenciesData[j].agency) < 0
         ELSE LocaleCompare(agenciesData[i].agency, agenciesData[j].agency) > 0
    ELSE LET vi == ExpectedCell(i, NumberOf(sortState.column), metric)
             vj == ExpectedCell(j, NumberOf(sortState.column), metric)
         IN  \/ vi = vj /\ i < j
             \/ sortState.direction = "asc" /\ vi < vj
             \/ sortState.direction = "desc" /\ vi > vj

\* C13: under every sort state, getSortedAgencies returns every agency once,
\* ordered by name for the column "agency" and otherwise monotone in the
\* metric's value for the year (non-decreasing for asc, non-increasing for
\* desc), an agency without an entry for the year counting as 0 and agencies
\* with equal values keeping their dataset order.
C13_SortedMonotoneStable ==
    phase = "ready"
    => \A metric \in Metrics :
          LET rows == getSortedAgencies(metric)
              n == Len(agenciesData)
          IN  /\ Len(rows) = n
              /\ \A k \in 1..n : rows[k] = filteredAgenciesData[RowAgency(rows, k)]
              /\ \A k, l \in 1..n :
                    k < l => BelongsBefore(RowAgency(rows, k), RowAgency(rows, l),
                                           metric, sortStates[metric])

\* C13's case: the sentiment table sorted descending by 2024, with an agency
\* that has no 2024 entry placed below one with a positive value and above
\* one with a negative value, and two agencies with equal values.
C13_Witness ==
    /\ phase = "ready"
    /\ sortStates["sentiment"] = [column |-> "2024", direction |-> "desc"]
    /\ LET rows == getSortedAgencies("sentiment")
       IN  \E k, l, h \in 1..Len(rows) :
              /\ k < l /\ l < h
              /\ ExpectedCell(RowAgency(rows, k), 2024, "sentiment") > 0
              /\ \A e \in 1..Len(rows[l].data) : rows[l].data[e].year # 2024
              /\ ExpectedCell(RowAgency(rows, h), 2024, "sentiment") < 0
    /\ \E i, j \in 1..Len(agenciesData) :
          i # j /\ ExpectedCell(i, 2024, "sentiment") = ExpectedCell(j, 2024, "sentiment")

\* The value of metric in the latest displayed entry of the i-th agency,
\* 0 when the agency has no displayed entry or the entry lacks the metric.
LatestOrZero(i, metric) ==
    LET d == filteredAgenciesData[i].data
    IN  IF d = <<>> THEN 0
        ELSE IF metric \in DOMAIN d[Len(d)] THEN d[Len(d)][metric]
        ELSE 0

\* The first three agencies when ranked by LatestOrZero, largest first
\* (sign = 1) or smallest first (sign = -1), equal values in dataset order.
ExpectedRankedOrZero(metric, sign) ==
    LET n == Len(agenciesData)
        outranks(j, i) ==
            \/ sign * LatestOrZero(j, metric) > sign * LatestOrZero(i, metric)
            \/ LatestOrZero(j, metric) = LatestOrZero(i, metric) /\ j < i
        place(i) == Cardinality({j \in 1..n : outranks(j, i)}) + 1
    IN  [k \in 1..Min(3, n) |->
            filteredAgenciesData[CHOOSE i \in 1..n : place(i) = k]]

\* C14: the startup top-3 computation and every handleFilter("top3" or
\* "bottom3", metric) complete without an exception, and select the agencies
\* ranked with a missing latest entry or a missing metric counted as 0.
C14_RankingNeverRaises ==
    /\ phase # "crashed"
    /\ ~threw
    /\ (phase = "ready" /\ lastCall.handler = "useEffect")
          => selectedAgencies = ExpectedRankedOrZero("wordCount", 1)
    /\ (FilterCalled /\ lastCall.filterType = "top3")
          => selectedAgencies = ExpectedRankedOrZero(lastCall.metric[1], 1)
    /\ (FilterCalled /\ lastCall.filterType = "bottom3")
          => selectedAgencies = ExpectedRankedOrZero(lastCall.metric[1], -1)

\* The set of names of a list of agencies.
NameSet(agencies) == {agencies[k].agency : k \in 1..Len(agencies)}

\* C15: on a dataset of at least 6 agencies, when handleFilter("top3", metric)
\* is followed by handleFilter("bottom3", metric) with the same metric, the
\* two selections have no agency in common.
C15_TopBottomDisjoint ==
    [][(/\ Len(agenciesData) >= 6
        /\ FilterCalled /\ lastCall.filterType = "top3" /\ ~threw
        /\ lastCall'.filterType = "bottom3" /\ ~threw'
        /\ lastCall'.metric = lastCall.metric)
       => NameSet(selectedAgencies) \cap NameSet(selectedAgencies') = {}]_vars

\* C16: after a filter operation the tables page over the selection: the
\* number of pages is the one for the number of selected agencies (an empty
\* selection counting as no page or as one), and every row on every page of
\* every table is an agency of the selection.
C16_PagesOverSelection ==
    (FilterCalled /\ ~threw)
    => /\ totalPages \in {ExpectedPages(Len(selectedAgencies)),
                          Max(1, ExpectedPages(Len(selectedAgencies)))}
       /\ \A metric \in Metrics, page \in 1..Max(1, totalPages) :
             NameSet(PageSlice(metric, page)) \subseteq NameSet(selectedAgencies)

\* C17: no step of the dashboard (filter, table sort, chart sort, paging)
\* changes the loaded dataset: the agencies, their order and every agency's
\* year entries stay as they were at startup.
C17_DatasetUnchanged == [][agenciesData' = agenciesData]_vars

\* C17's case: after a filter that selected six agencies, a move to page 2
\* and a header click that sorted a table by name, a chart was sorted.
C17_Witness ==
    /\ lastCall.handler = "ChartHeaderClick"
    /\ Len(selectedAgencies) = 6
    /\ currentPage = 2
    /\ sortStates["sentiment"] = [column |-> "agency", direction |-> "desc"]
    /\ sentimentSort = "asc"
    /\ getSortedAgencies("sentiment") # filteredAgenciesData
    /\ NamesOf(Reordered(selectedAgencies,
                         ChartOrder(selectedAgencies, "sentiment", "asc")))
          # NamesOf(selectedAgencies)

\* The sum of a metric over 2024 and 2025 for the agency of the given name.
ExpectedChartSum(name, metric) ==
    LET i == CHOOSE j \in 1..Len(agenciesData) : agenciesData[j].agency = name
    IN  ExpectedCell(i, 2024, metric) + ExpectedCell(i, 2025, metric)

\* A chart under a direction lists each selected agency once, ordered by the
\* sum of the metric in that direction, and colours the dataset at position
\* i (from 0) with palette colour i mod 5.
ChartColouredByPosition(metric, direction) ==
    LET ds == ChartDataOf(selectedAgencies, metric, direction).datasets
        n == Len(selectedAgencies)
    IN  /\ Len(ds) = n
        /\ {ds[k].label : k \in 1..n} = NameSet(selectedAgencies)
        /\ \A k \in 1..n :
              \E c \in 0..4 :
                  /\ (k - 1) % 5 = c
                  /\ ds[k].backgroundColor = colors[c + 1]
        /\ \A k, l \in 1..n :
              k < l => IF direction = "desc"
                       THEN ExpectedChartSum(ds[k].label, metric)
                               >= ExpectedChartSum(ds[l].label, metric)
                       ELSE ExpectedChartSum(ds[k].label, metric)
                               <= ExpectedChartSum(ds[l].label, metric)

\* C18: the four chart directions start descending; a click on a chart's
\* title flips that chart's direction and leaves the other three directions,
\* the four table sort states, the page and the selection as they were; and
\* the chart then shown, like the one shown before the click, colours its
\* agencies by their position in the chart's own sorted order.
C18_ChartsIndependent ==
    /\ chartVars = <<"desc", "desc", "desc", "desc">>
    /\ [][/\ ChartHeaderClick("wordCount")
             => /\ wordCountSort' # wordCountSort
                /\ UNCHANGED <<sentenceLengthSort, restrictivenessSort, sentimentSort>>
          /\ ChartHeaderClick("avgSentenceLength")
             => /\ sentenceLengthSort' # sentenceLengthSort
                /\ UNCHANGED <<wordCountSort, restrictivenessSort, sentimentSort>>
          /\ ChartHeaderClick("restrictiveness")
             => /\ restrictivenessSort' # restrictivenessSort
                /\ UNCHANGED <<wordCountSort, sentenceLengthSort, sentimentSort>>
          /\ ChartHeaderClick("sentiment")
             => /\ sentimentSort' # sentimentSort
                /\ UNCHANGED <<wordCountSort, sentenceLengthSort, restrictivenessSort>>
          /\ \A metric \in Metrics :
                ChartHeaderClick(metric)
                => /\ UNCHANGED <<sortStates, currentPage, selectedAgencies>>
                   /\ ChartColouredByPosition(metric, "asc")
                   /\ ChartColouredByPosition(metric, "desc")]_vars

\* C18's case: the restrictiveness chart was flipped to ascending while
\* another chart stays descending and a table is sorted by name; six agencies
\* are charted, so the sixth dataset gets the first palette colour again, and
\* the chart's order is not the order of the selection.
C18_Witness ==
    /\ lastCall.handler = "ChartHeaderClick"
    /\ lastCall.metric = Some("restrictiveness")
    /\ restrictivenessSort = "asc" /\ wordCountSort = "desc"
    /\ sortStates["sentiment"].column = "agency"
    /\ Len(selectedAgencies) = 6
    /\ createChartData("restrictiveness").datasets[6].backgroundColor = colors[1]
    /\ [k \in 1..6 |-> createChartData("restrictiveness").datasets[k].label]
          # NamesOf(selectedAgencies)


\* The handlers that page a table or filter the selection.
PagingAndFilterHandlers ==
    {"NextClick", "PreviousClick", "AllAgenciesClick", "Top3WordCountClick",
     "Top3RestrictivenessClick", "Bottom3SentimentClick", "handleAgencyChange",
     "handleSearch", "onFilter"}

\* C19: a Next or Previous click or a filter operation leaves the column and
\* the direction of all four tables' sort states as they were.
C19_SortStateSurvives ==
    [][lastCall'.handler \in PagingAndFilterHandlers
          => sortStates' = sortStates]_vars


\* The rows of the first k of the given pages, one page after the other.
RECURSIVE ConcatPages(_, _)
ConcatPages(pages, k) ==
    IF k = 0 THEN <<>> ELSE ConcatPages(pages, k - 1) \o pages[k]

\* C20: for every metric's table, the slices of pages 1..totalPages, one
\* after the other, are the full sorted agency list; every agency is on
\* exactly one page; every page but the last has exactly 5 rows, and the
\* last page of a non-empty dataset has between 1 and 5.
C20_PagesPartitionSorted ==
    phase = "ready"
    => \A metric \in Metrics :
          \A pages \in {[p \in 1..totalPages |-> PageSlice(metric, p)]} :
              /\ ConcatPages(pages, totalPages) = getSortedAgencies(metric)
              /\ \A i \in 1..Len(agenciesData) :
                    Cardinality({<<p, k>> \in (1..totalPages) \X (1..5) :
                                    /\ k <= Len(pages[p])
                                    /\ pages[p][k].agency = agenciesData[i].agency}) = 1
              /\ \A p \in 1..(totalPages - 1) : Len(pages[p]) = 5
              /\ Len(agenciesData) > 0
                 => /\ totalPages >= 1
                    /\ Len(pages[totalPages]) \in 1..5

\* C20's case: the third page of eleven agencies, with a table sorted by
\* agency name descending into an order other than the dataset's, whose
\* last page holds one row.
C20_Witness ==
    /\ phase = "ready"
    /\ Len(agenciesData) = 11
    /\ totalPages = 3 /\ currentPage = 3
    /\ sortStates["sentiment"] = [column |-> "agency", direction |-> "desc"]
    /\ getSortedAgencies("sentiment") # filteredAgenciesData
    /\ Len(PageSlice("sentiment", 3)) = 1
    /\ Len(PageSlice("sentiment", 2)) = 5

====
